---- MODULE Spec2Model ----
(***************************************************************************)
(* Model of production_tracker.py: the SQLite record store written by      *)
(* init_db() and by the "Submit Activity" form, and the analytics pass of  *)
(* app() (label encoders, duration regressor, anomaly detector, the two    *)
(* query buttons).  One step of the model is one run of the script         *)
(* (__main__: init_db(); app()), which Streamlit repeats on every          *)
(* interaction.                                                            *)
(*                                                                         *)
(* Strings whose characters matter (line ids, activity types, part         *)
(* descriptions, times of day) are sequences of one-character strings, so  *)
(* that parsing, formatting and sorting are computed and not assumed.      *)
(***************************************************************************)
EXTENDS Integers, Sequences, FiniteSets

VARIABLES
    Lines,          \* table Lines: set of rows (line_id is the primary key)
    Machines,       \* table Machines: its number of rows (see MachineRow)
    Operators,      \* table Operators: sequence of rows, operator_id = position
    ActivityLogs,   \* table ActivityLogs: sequence of rows, log_id = position
    session,        \* locals of the last analytics pass of app()
    clicked,        \* the buttons that were True in the last script run
    form,           \* the widget values of the last script run
    shown           \* the messages the last script run displayed

vars == <<Lines, Machines, Operators, ActivityLogs, session, clicked, form, shown>>

-----------------------------------------------------------------------------
(* Bounds of the model *)

\* script runs explored (every run appends a batch of Machines rows)
MaxRuns == 5
\* ActivityLogs rows explored
MaxLogs == 2
\* trees of the regressor explored (the library default is 100)
NTrees == 2

-----------------------------------------------------------------------------
(* Character strings *)

\* the characters used, in code point order
AsciiChars ==
    <<" ", "0", "1", "2", "3", "4", "5", "6", "7", "8", "9", ":",
      "A", "B", "C", "D", "L", "P", "R", "S", "T", "U", "Z",
      "a", "b", "c", "d", "e", "g", "i", "k", "l", "n", "o", "p", "r",
      "t", "u", "w">>

Ord(c) == CHOOSE i \in 1..Len(AsciiChars) : AsciiChars[i] = c

Digits == <<"0", "1", "2", "3", "4", "5", "6", "7", "8", "9">>

IsDigit(c) == \E i \in 1..10 : Digits[i] = c

DigitVal(c) == (CHOOSE i \in 1..10 : Digits[i] = c) - 1

\* Python's str(i) for i >= 0
RECURSIVE Str(_)
Str(i) == IF i < 10 THEN <<Digits[i + 1]>>
          ELSE Append(Str(i \div 10), Digits[(i % 10) + 1])

\* Python's s < t on str: lexicographic by code point
RECURSIVE StrLess(_, _)
StrLess(s, t) ==
    IF t = <<>> THEN FALSE
    ELSE IF s = <<>> THEN TRUE
    ELSE IF Head(s) = Head(t) THEN StrLess(Tail(s), Tail(t))
    ELSE Ord(Head(s)) < Ord(Head(t))

\* sorted(set): the ascending sequence of the members of a set of strings
RECURSIVE Sorted(_)
Sorted(S) ==
    IF S = {} THEN <<>>
    ELSE LET m == CHOOSE x \in S : \A y \in S \ {x} : StrLess(x, y)
         IN  <<m>> \o Sorted(S \ {m})

Range(seq) == {seq[i] : i \in 1..Len(seq)}

-----------------------------------------------------------------------------
(* datetime.strptime(s, "%H:%M") and the duration of a submission *)

ParseError == -1

\* one or two digits, value at most max; ParseError otherwise
Field(s, max) ==
    IF Len(s) = 1 /\ IsDigit(s[1]) THEN DigitVal(s[1])
    ELSE IF Len(s) = 2 /\ IsDigit(s[1]) /\ IsDigit(s[2])
              /\ 10 * DigitVal(s[1]) + DigitVal(s[2]) <= max
         THEN 10 * DigitVal(s[1]) + DigitVal(s[2])
    ELSE ParseError

\* minutes after midnight of the parsed time, or ParseError (ValueError)
Strptime(s) ==
    LET colons == {i \in 1..Len(s) : s[i] = ":"}
    IN  IF Cardinality(colons) # 1 THEN ParseError
        ELSE LET k == CHOOSE i \in colons : TRUE
                 h == Field(SubSeq(s, 1, k - 1), 23)
                 m == Field(SubSeq(s, k + 1, Len(s)), 59)
             IN  IF h = ParseError \/ m = ParseError THEN ParseError
                 ELSE 60 * h + m

SecondsPerDay == 86400

\* the signed difference, as total_seconds() / 60 would give it
DurationSigned(start, end) == end - start

\* (end_time - start_time).seconds / 60: timedelta normalises a negative
\* difference to days = -1 and 0 <= seconds < 86400
DurationMinutes(start, end) == ((60 * (end - start)) % SecondsPerDay) \div 60

-----------------------------------------------------------------------------
(* init_db *)

NumLines == 22

LineId(i) == <<"R">> \o Str(i)

LineDescription(i) ==
    <<"P", "r", "o", "d", "u", "c", "t", "i", "o", "n", " ",
      "L", "i", "n", "e", " ">> \o Str(i)

MachineList ==
    << <<"Rougher Roller Turner", "Rougher">>,
       <<"Rougher Pump", "Rougher">>,
       <<"Rougher Body Grinder", "Rougher">>,
       <<"Rougher Marposs Gauging System", "Rougher">>,
       <<"Rougher Conveyor", "Rougher">>,
       <<"Semi-Finisher Pump", "Semi-Finisher">>,
       <<"Semi-Finisher Marposs Gauging System", "Semi-Finisher">>,
       <<"Semi-Finisher Body Grinder", "Semi-Finisher">>,
       <<"Semi-Finisher Conveyor", "Semi-Finisher">>,
       <<"SEG", "Semi-Finisher">>,
       <<"Finisher Body Grinder", "Finisher">>,
       <<"Finisher Pump", "Finisher">>,
       <<"Finisher Marposs Gauging System", "Finisher">>,
       <<"Finisher Conveyor", "Finisher">>,
       <<"Honer", "Finisher">>,
       <<"ECT", "Finisher">>,
       <<"IBG", "Finisher">>,
       <<"Vision System", "Inspection">>,
       <<"Sealer Unit", "Finisher">> >>

\* the rows the loop "for i in range(1, 23)" gives to INSERT INTO Lines
LineRows ==
    <<>> \o [i \in 1..NumLines |->
               [line_id |-> LineId(i), description |-> LineDescription(i)]]

\* INSERT OR IGNORE INTO Lines, for every row of the loop: line_id is the
\* primary key, so a row whose line_id is already in the table is dropped
InsertOrIgnoreLines(tbl) ==
    tbl \cup {LineRows[i] : i \in {j \in 1..NumLines :
                                     \A r \in tbl : r.line_id # LineRows[j].line_id}}

\* the rows the loop gives to INSERT INTO Machines in one run of init_db:
\* the machine list once per line, in line order
CatalogSize == NumLines * Len(MachineList)

CatalogRows ==
    <<>> \o [k \in 1..CatalogSize |->
        LET i == ((k - 1) \div Len(MachineList)) + 1
            m == MachineList[((k - 1) % Len(MachineList)) + 1]
        IN  [line_id      |-> LineId(i),
             machine_name |-> m[1],
             machine_type |-> m[2]]]

\* The table Machines is written by this loop only, each row with the next
\* AUTOINCREMENT machine_id, so its content is determined by its number of
\* rows, which is what the variable Machines holds: the row with machine_id k
MachineRow(k) ==
    LET c == CatalogRows[((k - 1) % CatalogSize) + 1]
    IN  [machine_id   |-> k,
         line_id      |-> c.line_id,
         machine_name |-> c.machine_name,
         machine_type |-> c.machine_type]

\* the INSERT INTO Machines of the loop: nothing is unique and there is no
\* OR IGNORE, so every insert adds a row
InsertMachines(n) == n + CatalogSize

\* init_db(): the tables after one more run (CREATE TABLE IF NOT EXISTS keeps
\* the rows of earlier runs)
InitDb(lines, machines) == <<InsertOrIgnoreLines(lines), InsertMachines(machines)>>

-----------------------------------------------------------------------------
(* The "Submit Activity" handler of app() *)

\* INSERT OR IGNORE INTO Operators (name, assigned_line): the only key of the
\* table is the AUTOINCREMENT operator_id, so no insert ever conflicts and
\* nothing is ignored
InsertOrIgnoreOperator(tbl, name, line) ==
    Append(tbl, [operator_id |-> Len(tbl) + 1, name |-> name,
                 assigned_line |-> line])

\* machines[(line_id == ...) & (machine_name == ...)]["machine_id"].values[0]
MachineIdOf(machines, line, name) ==
    LET Hit(k) == /\ MachineRow(k).line_id = line
                  /\ MachineRow(k).machine_name = name
    IN  MachineRow(CHOOSE k \in 1..machines :
                      Hit(k) /\ \A j \in 1..(k - 1) : ~Hit(j)).machine_id

\* SELECT operator_id FROM Operators WHERE name=? AND assigned_line=?, .values[0]
OperatorIdOf(ops, name, line) ==
    LET Hit(k) == ops[k].name = name /\ ops[k].assigned_line = line
    IN  ops[CHOOSE k \in 1..Len(ops) :
               Hit(k) /\ \A j \in 1..(k - 1) : ~Hit(j)].operator_id

\* the row of INSERT INTO ActivityLogs
LogRow(logs, machines, ops, f, duration) ==
    [log_id           |-> Len(logs) + 1,
     line_id          |-> f.line_id,
     machine_id       |-> MachineIdOf(machines, f.line_id, f.machine_name),
     operator_id      |-> OperatorIdOf(ops, f.operator_name, f.line_id),
     activity_type    |-> f.activity_type,
     part_description |-> f.part_description,
     start_time       |-> f.start_time_str,
     end_time         |-> f.end_time_str,
     duration_minutes |-> duration,
     notes            |-> f.notes]

\* the body of "if st.button('Submit Activity')": the operator row is
\* committed before the times are parsed
SubmitActivity(machines, ops, logs, f) ==
    LET ops1  == InsertOrIgnoreOperator(ops, f.operator_name, f.line_id)
        start == Strptime(f.start_time_str)
        end   == Strptime(f.end_time_str)
    IN  IF start = ParseError \/ end = ParseError
        THEN [Operators |-> ops1, ActivityLogs |-> logs, msg |-> "error"]
        ELSE [Operators    |-> ops1,
              ActivityLogs |-> Append(logs, LogRow(logs, machines, ops1, f,
                                                   DurationMinutes(start, end))),
              msg          |-> "success"]

-----------------------------------------------------------------------------
(* sklearn.preprocessing.LabelEncoder *)

\* the marker of a NULL part_description (pandas NaN); st.text_input never
\* produces it, it only reaches the table from outside the script
Null == <<"NULL">>

Unknown == <<"U", "n", "k", "n", "o", "w", "n">>

\* Series.fillna("Unknown")
FillNa(v) == IF v = Null THEN Unknown ELSE v

Column(logs, field) == [i \in 1..Len(logs) |-> logs[i][field]]

\* classes_ taken from the column as it is, duplicates kept
LabelFitRaw(col) == col

\* LabelEncoder.fit: classes_ = the sorted distinct values of the column
LabelFit(col) == Sorted(Range(col))

\* value in le.classes_
InClasses(classes, v) == \E i \in 1..Len(classes) : classes[i] = v

UnseenLabel == -1

\* LabelEncoder.transform([v])[0]: the position of v in classes_ counted from
\* 0, or UnseenLabel where transform raises ValueError
LabelTransform(classes, v) ==
    IF InClasses(classes, v)
    THEN (CHOOSE i \in 1..Len(classes) : classes[i] = v) - 1
    ELSE UnseenLabel

-----------------------------------------------------------------------------
(* The analytics pass of app(): "if not logs.empty" up to anomaly_model.fit *)

EmptySession ==
    [state |-> "Empty", logs |-> <<>>, le_line |-> <<>>, le_activity |-> <<>>,
     le_part |-> <<>>, X |-> <<>>, y |-> <<>>]

\* the pass without the guard "if not logs.empty"
AnalyzeUnguarded(logs) ==
    [state       |-> "Fitted",
     logs        |-> logs,
     le_line     |-> LabelFit(Column(logs, "line_id")),
     le_activity |-> LabelFit(Column(logs, "activity_type")),
     le_part     |-> LabelFit([i \in 1..Len(logs) |-> FillNa(logs[i].part_description)]),
     X           |-> <<>>,
     y           |-> Column(logs, "duration_minutes")]

\* the encoders, the feature matrix X and the target y fitted on logs
Analyze(logs) ==
    IF logs = <<>> THEN EmptySession
    ELSE LET parts       == [i \in 1..Len(logs) |-> FillNa(logs[i].part_description)]
             le_line     == LabelFit(Column(logs, "line_id"))
             le_activity == LabelFit(Column(logs, "activity_type"))
             le_part     == LabelFit(parts)
         IN  [state       |-> "Fitted",
              logs        |-> logs,
              le_line     |-> le_line,
              le_activity |-> le_activity,
              le_part     |-> le_part,
              X |-> [i \in 1..Len(logs) |->
                        <<LabelTransform(le_line, logs[i].line_id),
                          LabelTransform(le_activity, logs[i].activity_type),
                          LabelTransform(le_part, parts[i])>>],
              y |-> Column(logs, "duration_minutes")]

\* the part code without the fallback: transform raises on an unseen label
PartCodeNoFallback(classes, part) == LabelTransform(classes, part)

\* the part code of a query: le_part.transform([pred_part])[0]
\* if pred_part in le_part.classes_ else 0
PartCode(classes, part) ==
    IF InClasses(classes, part) THEN LabelTransform(classes, part) ELSE 0

\* the feature vector of a query
QueryVector(sess, q) ==
    <<LabelTransform(sess.le_line, q.line),
      LabelTransform(sess.le_activity, q.activity),
      PartCode(sess.le_part, q.part)>>

\* building the vector raises (the except branch is taken)
QueryRaises(sess, q) ==
    \E k \in 1..3 : QueryVector(sess, q)[k] = UnseenLabel

-----------------------------------------------------------------------------
(* RandomForestRegressor() and IsolationForest(contamination=0.1).  Neither  *)
(* is given a random_state, so every fit draws fresh bootstrap samples: a    *)
(* fit is a choice among the forests the corpus allows.  Durations are       *)
(* exact fractions <<numerator, denominator>> in lowest terms.               *)

RECURSIVE GCD(_, _)
GCD(a, b) == IF b = 0 THEN a ELSE GCD(b, a % b)

Rat(n, d) == LET g == GCD(n, d) IN <<n \div g, d \div g>>

RatAdd(a, b) == Rat(a[1] * b[2] + b[1] * a[2], a[2] * b[2])

RatDiv(a, k) == Rat(a[1], a[2] * k)

\* a bootstrap sample: as many draws with replacement as there are rows
Bootstraps(n) == [1..n -> 1..n]

RECURSIVE SumOver(_, _, _)
SumOver(b, y, K) ==
    IF K = {} THEN 0
    ELSE LET k == CHOOSE j \in K : TRUE
         IN  y[b[k]] + SumOver(b, y, K \ {k})

\* the value of the leaf that holds the drawn rows with feature vector v:
\* the mean of their targets (a fully grown tree separates distinct vectors
\* unless their targets agree)
LeafValue(b, X, y, v) ==
    LET K == {k \in DOMAIN b : X[b[k]] = v}
    IN  Rat(SumOver(b, y, K), Cardinality(K))

\* the values one tree grown on the sample b can predict for x: the leaf of
\* x when the sample holds the vector x, some leaf of the tree otherwise
TreePredictions(b, X, y, x) ==
    IF \E k \in DOMAIN b : X[b[k]] = x
    THEN {LeafValue(b, X, y, x)}
    ELSE {LeafValue(b, X, y, X[b[k]]) : k \in DOMAIN b}

RECURSIVE SumsOfTrees(_, _)
SumsOfTrees(T, k) ==
    IF k = 0 THEN {<<0, 1>>}
    ELSE {RatAdd(a, t) : a \in SumsOfTrees(T, k - 1), t \in T}

\* model.predict([x])[0] over the forests model.fit(X, y) can build: the
\* mean of the trees' predictions
ForestPredictions(X, y, x) ==
    LET T == UNION {TreePredictions(b, X, y, x) : b \in Bootstraps(Len(X))}
    IN  {RatDiv(s, NTrees) : s \in SumsOfTrees(T, NTrees)}

\* f"{pred[0]:.2f}": the value in hundredths of a minute
Format2f(v) == (200 * v[1] + v[2]) \div (2 * v[2])

\* anomaly_model.predict([x])[0]: 1 or -1, by the random trees of the fit
AnomalyPredictions(X, x) == {1, -1}

-----------------------------------------------------------------------------
(* The two query buttons *)

NoAnswer == [kind |-> "none", pred |-> <<0, 1>>, text |-> 0]

\* "if st.button('Predict Setup Time')": st.info with the prediction, or
\* st.error when building the vector raised
PredictSetupTime(sess, q) ==
    IF QueryRaises(sess, q)
    THEN {[kind |-> "error", pred |-> <<0, 1>>, text |-> 0]}
    ELSE {[kind |-> "info", pred |-> v, text |-> Format2f(v)] :
             v \in ForestPredictions(sess.X, sess.y, QueryVector(sess, q))}

\* "if st.button('Check Anomaly')"
CheckAnomaly(sess, q) ==
    IF QueryRaises(sess, q) THEN {"error"}
    ELSE {IF r = -1 THEN "abnormal" ELSE "normal" :
             r \in AnomalyPredictions(sess.X, QueryVector(sess, q))}

-----------------------------------------------------------------------------
(* One run of the script: init_db(); app() *)

\* the table as it was read before the submit handler ran
ReadLogsBeforeSubmit(before, after) == before

\* logs = pd.read_sql("SELECT * FROM ActivityLogs"), read after the submit
\* handler has committed
ReadLogs(before, after) == after

NoButton == [submit |-> FALSE, predict |-> FALSE, anomaly |-> FALSE]

Setup == <<"S", "e", "t", "u", "p">>
Cleaning == <<"C", "l", "e", "a", "n", "i", "n", "g">>

\* the widget values of a run in which the user typed nothing
DefaultForm ==
    [line_id          |-> LineId(1),
     part_description |-> <<>>,
     machine_name     |-> MachineList[1][1],
     operator_name    |-> "",
     activity_type    |-> Setup,
     start_time_str   |-> <<"0", "8", ":", "0", "0">>,
     end_time_str     |-> <<"0", "9", ":", "0", "0">>,
     notes            |-> "",
     pred_line        |-> LineId(1),
     pred_activity    |-> Setup,
     pred_part        |-> <<>>]

Query(f) == [line |-> f.pred_line, activity |-> f.pred_activity,
             part |-> f.pred_part]

ScriptRun(btn, f) ==
    LET db   == InitDb(Lines, Machines)
        sub  == IF btn.submit
                THEN SubmitActivity(db[2], Operators, ActivityLogs, f)
                ELSE [Operators |-> Operators, ActivityLogs |-> ActivityLogs,
                      msg |-> "none"]
        sess == Analyze(ReadLogs(ActivityLogs, sub.ActivityLogs))
        asked == sess.state = "Fitted"
    IN  /\ Lines' = db[1]
        /\ Machines' = db[2]
        /\ Operators' = sub.Operators
        /\ ActivityLogs' = sub.ActivityLogs
        /\ session' = sess
        /\ clicked' = btn
        /\ form' = f
        /\ \E p \in (IF asked /\ btn.predict
                     THEN PredictSetupTime(sess, Query(f)) ELSE {NoAnswer}),
              a \in (IF asked /\ btn.anomaly
                     THEN CheckAnomaly(sess, Query(f)) ELSE {"none"}) :
              shown' = [page    |-> TRUE,
                        queryUI |-> asked,
                        submit  |-> sub.msg,
                        predict |-> p,
                        anomaly |-> a]

-----------------------------------------------------------------------------
(* The inputs explored *)

FormLines == {LineId(2), LineId(10)}
FormActivities == {Setup, Cleaning}
PredParts == {<<>>, <<"B">>}

\* <<line, activity type, part description>> of the submissions
FormEntries ==
    {<<LineId(2), Setup, <<"A">> >>, <<LineId(10), Setup, <<"B">> >>,
     <<LineId(2), Cleaning, <<"B">> >>, <<LineId(10), Cleaning, <<"A">> >>}

\* <<start time, end time>> of the submissions: an end before the start, an
\* end after it, a start and an end that are not HH:MM
FormTimes ==
    {<< <<"0", "9", ":", "3", "0">>, <<"8", ":", "0", "0">> >>,
     << <<"0", "9", ":", "3", "0">>, <<"1", "0", ":", "1", "5">> >>,
     << <<"2", "4", ":", "0", "0">>, <<"1", "0", ":", "1", "5">> >>,
     << <<"0", "9", ":", "3", "0">>, <<"1", "0", "1", "5">> >>}

SubmitForm(e, t) ==
    [DefaultForm EXCEPT !.line_id = e[1], !.activity_type = e[2],
                        !.part_description = e[3], !.operator_name = "Ann",
                        !.start_time_str = t[1], !.end_time_str = t[2]]

Runs == Machines \div CatalogSize

Init ==
    /\ Lines = {}
    /\ Machines = 0
    /\ Operators = <<>>
    /\ ActivityLogs = <<>>
    /\ session = EmptySession
    /\ clicked = NoButton
    /\ form = DefaultForm
    /\ shown = [page |-> FALSE, queryUI |-> FALSE, submit |-> "none",
                predict |-> NoAnswer, anomaly |-> "none"]

\* a run with no button pressed: the first load, or an edit of a widget
Rerun ==
    /\ Runs < MaxRuns
    /\ ScriptRun(NoButton, DefaultForm)

ClickSubmit ==
    /\ Runs < MaxRuns
    /\ shown.page
    /\ Len(ActivityLogs) < MaxLogs
    /\ \E e \in FormEntries, t \in FormTimes :
          ScriptRun([NoButton EXCEPT !.submit = TRUE], SubmitForm(e, t))

ClickPredict ==
    /\ Runs < MaxRuns
    /\ shown.queryUI
    /\ \E l \in FormLines, a \in FormActivities, p \in PredParts :
          ScriptRun([NoButton EXCEPT !.predict = TRUE],
                    [DefaultForm EXCEPT !.pred_line = l, !.pred_activity = a,
                                        !.pred_part = p])

ClickAnomaly ==
    /\ Runs < MaxRuns
    /\ shown.queryUI
    /\ \E l \in FormLines, a \in FormActivities, p \in PredParts :
          ScriptRun([NoButton EXCEPT !.anomaly = TRUE],
                    [DefaultForm EXCEPT !.pred_line = l, !.pred_activity = a,
                                        !.pred_part = p])

\* two clicks coalesced into one run: the activity is submitted and a query
\* for the same line, activity type and part is answered in the same run
ClickSubmitAndQuery ==
    /\ Runs < MaxRuns
    /\ shown.queryUI
    /\ Len(ActivityLogs) < MaxLogs
    /\ \E e \in FormEntries, t \in FormTimes, pr \in BOOLEAN :
          ScriptRun([submit |-> TRUE, predict |-> pr, anomaly |-> ~pr],
                    [SubmitForm(e, t) EXCEPT !.pred_line = e[1],
                                             !.pred_activity = e[2],
                                             !.pred_part = e[3]])

Next ==
    \/ Rerun
    \/ ClickSubmit
    \/ ClickPredict
    \/ ClickAnomaly
    \/ ClickSubmitAndQuery

Spec == Init /\ [][Next]_vars

-----------------------------------------------------------------------------
(* Properties *)

LinesUsed == FormLines
ActivitiesUsed == FormActivities
PartsUsed == {e[3] : e \in FormEntries} \cup PredParts

Queries ==
    {[line |-> l, activity |-> a, part |-> p] :
        l \in LinesUsed, a \in ActivitiesUsed, p \in PartsUsed}

Fitted == session.state = "Fitted"

PredictAnswered == clicked.predict /\ shown.predict.kind # "none"
AnomalyAnswered == clicked.anomaly /\ shown.anomaly # "none"

\* a query was answered with a result, not with an error
PredictSucceeded == shown.predict.kind = "info"
AnomalySucceeded == shown.anomaly \in {"normal", "abnormal"}

\* the run displayed a rejection of a query
QueryRejected == shown.predict.kind = "error" \/ shown.anomaly = "error"

C2_Claim ==
    (Fitted /\ clicked.predict) =>
        /\ PredictSucceeded
        /\ shown.predict.pred[1] >= 0 /\ shown.predict.pred[2] > 0

\* the kinds of answer a query can get from the session
PredictKinds(sess, q) == {r.kind : r \in PredictSetupTime(sess, q)}
AnomalyKinds(sess, q) == {IF r = "error" THEN "error" ELSE "verdict" :
                             r \in CheckAnomaly(sess, q)}

\* C3: in a Fitted session an out-of-vocabulary part description is encoded
\* with part code 0, and with the line and the activity type held fixed a
\* query succeeds for it exactly when it succeeds for an in-vocabulary one;
\* the query the run answered obeys the same rule.
C3_OutOfVocabulary ==
    Fitted =>
        /\ \A q \in Queries :
              ~InClasses(session.le_part, q.part) =>
                  /\ QueryVector(session, q)[3] = 0
                  /\ \A p \in PartsUsed :
                        InClasses(session.le_part, p) =>
                            LET q2 == [q EXCEPT !.part = p]
                            IN  /\ PredictKinds(session, q) = PredictKinds(session, q2)
                                /\ AnomalyKinds(session, q) = AnomalyKinds(session, q2)
        /\ (PredictAnswered /\ ~InClasses(session.le_part, form.pred_part)) =>
              (PredictSucceeded <=>
                  /\ InClasses(session.le_line, form.pred_line)
                  /\ InClasses(session.le_activity, form.pred_activity))
        /\ (AnomalyAnswered /\ ~InClasses(session.le_part, form.pred_part)) =>
              (AnomalySucceeded <=>
                  /\ InClasses(session.le_line, form.pred_line)
                  /\ InClasses(session.le_activity, form.pred_activity))

\* a query with an out-of-vocabulary part description got a prediction
C3_Witness ==
    /\ Fitted /\ PredictAnswered /\ PredictSucceeded
    /\ ~InClasses(session.le_part, form.pred_part)

\* C4 as claimed: of two consecutive predictDuration requests with the same
\* arguments and no submission in their runs, the second shows the value the
\* first showed.
C4_Claim ==
    [][(/\ clicked.predict /\ ~clicked.submit /\ PredictSucceeded
        /\ clicked'.predict /\ ~clicked'.submit
        /\ Query(form') = Query(form))
       => shown'.predict = shown.predict]_vars

MinutesPerDay == SecondsPerDay \div 60

\* C5 as claimed: every stored record has a non-negative duration_minutes
\* equal to end time minus start time in minutes.
C5_Original ==
    \A i \in 1..Len(ActivityLogs) :
        LET r == ActivityLogs[i]
        IN  /\ r.duration_minutes >= 0
            /\ r.duration_minutes = Strptime(r.end_time) - Strptime(r.start_time)

\* C5 as amended: every stored record has valid times and a duration_minutes
\* in [0, 1440) that is end minus start when the end is not before the
\* start, and end minus start plus 1440 (a day) when it is.
C5_DurationWraps ==
    \A i \in 1..Len(ActivityLogs) :
        LET r == ActivityLogs[i]
            s == Strptime(r.start_time)
            e == Strptime(r.end_time)
        IN  /\ s # ParseError /\ e # ParseError
            /\ r.duration_minutes >= 0 /\ r.duration_minutes < MinutesPerDay
            /\ e >= s => r.duration_minutes = e - s
            /\ e < s => r.duration_minutes = e - s + MinutesPerDay

\* a record whose end time is before its start time is stored
C5_Witness ==
    \E i \in 1..Len(ActivityLogs) :
        Strptime(ActivityLogs[i].end_time) < Strptime(ActivityLogs[i].start_time)

\* classes is a bijection between the values of the column and 0..k-1
IsBijection(classes, col) ==
    /\ Range(classes) = Range(col)
    /\ Len(classes) = Cardinality(Range(col))
    /\ \A v \in Range(col) : LabelTransform(classes, v) \in 0..(Len(classes) - 1)
    /\ \A v, w \in Range(col) :
          LabelTransform(classes, v) = LabelTransform(classes, w) => v = w
    /\ \A c \in 0..(Len(classes) - 1) :
          \E v \in Range(col) : LabelTransform(classes, v) = c

\* C6: after every analytics pass over a non-empty corpus each encoder is a
\* bijection between the distinct values of its field in the current corpus
\* and 0..k-1, and every record of the corpus has its three codes.
C6_EncodersBijective ==
    Fitted =>
        LET parts == [i \in 1..Len(ActivityLogs) |->
                         FillNa(ActivityLogs[i].part_description)]
        IN  /\ IsBijection(session.le_line, Column(ActivityLogs, "line_id"))
            /\ IsBijection(session.le_activity, Column(ActivityLogs, "activity_type"))
            /\ IsBijection(session.le_part, parts)
            /\ Len(session.X) = Len(ActivityLogs)
            /\ \A i \in 1..Len(ActivityLogs) :
                  /\ session.X[i][1] = LabelTransform(session.le_line, ActivityLogs[i].line_id)
                  /\ session.X[i][2] = LabelTransform(session.le_activity,
                                                      ActivityLogs[i].activity_type)
                  /\ session.X[i][3] = LabelTransform(session.le_part, parts[i])
                  /\ \A k \in 1..3 : session.X[i][k] # UnseenLabel

\* two records share a line and differ in activity type and part
C6_Witness ==
    /\ Fitted /\ Len(ActivityLogs) = 2
    /\ Len(session.le_line) = 1
    /\ Len(session.le_activity) = 2 /\ Len(session.le_part) = 2

\* C7 as claimed: in a Fitted session the code of an out-of-vocabulary part
\* description differs from the code of every part description of the corpus.
C7_Claim ==
    Fitted =>
        \A p, p2 \in PartsUsed :
            (~InClasses(session.le_part, p) /\ InClasses(session.le_part, p2)) =>
                PartCode(session.le_part, p) # PartCode(session.le_part, p2)

\* C8: every answered query is answered by the session fitted in the same
\* run on the table ActivityLogs as it stands after the run's submission:
\* the encoders, the matrix and the target are those of that table, and the
\* answer is one the models fitted on them can give.
C8_NoStaleState ==
    (PredictAnswered \/ AnomalyAnswered) =>
        /\ session.logs = ActivityLogs
        /\ session = Analyze(ActivityLogs)
        /\ PredictAnswered =>
              shown.predict \in PredictSetupTime(Analyze(ActivityLogs), Query(form))
        /\ AnomalyAnswered =>
              shown.anomaly \in CheckAnomaly(Analyze(ActivityLogs), Query(form))

\* a run stored a record and answered a prediction for it
C8_Witness ==
    /\ clicked.submit /\ shown.submit = "success"
    /\ PredictAnswered /\ PredictSucceeded

InvalidTimes(f) ==
    Strptime(f.start_time_str) = ParseError \/ Strptime(f.end_time_str) = ParseError

\* C9 as claimed: a submission with an invalid start or end time shows the
\* error and leaves ActivityLogs and Operators as they were.
C9_Claim ==
    [][(clicked'.submit /\ InvalidTimes(form')) =>
          /\ shown'.submit = "error"
          /\ ActivityLogs' = ActivityLogs
          /\ Operators' = Operators]_vars

\* C10 as claimed: after any number of runs of init_db the table Lines holds
\* exactly the rows R1..R22 and the table Machines exactly one row for every
\* pair of a line and a machine of the list.
C10_Claim ==
    shown.page =>
        /\ {r.line_id : r \in Lines} = {LineId(i) : i \in 1..NumLines}
        /\ Cardinality(Lines) = NumLines
        /\ \A c \in 1..CatalogSize :
              Cardinality({k \in 1..Machines :
                              /\ MachineRow(k).line_id = CatalogRows[c].line_id
                              /\ MachineRow(k).machine_name = CatalogRows[c].machine_name}) = 1

====
